---- MODULE Spec2Model ----
(***************************************************************************)
(* Model of monitor.py: the rental-history monitor.  One run of main()     *)
(* loads the seen-identity set from the state file, fetches the history of *)
(* every bike of BIKE_IDS, diffs the records against the loaded set,       *)
(* notifies the new ones and writes the united set back.                   *)
(*                                                                         *)
(* The remote history API, the webhook and the file system are the         *)
(* environment: the outcome of every HTTP attempt, webhook POST and file   *)
(* write is chosen nondeterministically; api records, per bike, the answer *)
(* the history API has been seen to give since it last may have changed.   *)
(* The webhook URL is taken to be configured and                           *)
(* the presentation fields of a record (name, port, end_location) to be    *)
(* well formed, so the formatting code of send_discord_notification        *)
(* (lines 50-91) does not raise; only the POST can fail.                   *)
(*                                                                         *)
(* Specifications: Spec (runs one at a time, the API free to change between *)
(* runs or kept as it was after a run whose write did not fail), SpecRetry  *)
(* (Spec and runs repeated after a failed state write), SpecSaved (runs one *)
(* at a time whose state writes succeed), SpecOrder (the same with the      *)
(* bikes listed in any order), SpecOverlap (two invocations that may        *)
(* overlap) and SpecLive (one invocation under weak fairness).              *)
(***************************************************************************)
EXTENDS Integers, Sequences, FiniteSets, TLC

(* ---- bounds ---- *)
\* number of tracked bikes taken from the head of BIKE_IDS
NumBikes == 2
\* number of records the history API answers with in one run, all bikes
\* together
MaxRecords == 3

\* number of identities in a state file left by the runs before the first
\* run of a behaviour, where a specification starts from such a file
MaxPrior == 1

(* ---- program constants ---- *)
\* range(3) in fetch_history
MaxAttempts == 3

AllBikeIds ==
    <<3592, 3593, 3595, 3596, 3597, 3598, 3600, 3602, 3603, 3604,
      3605, 3606, 3607, 3608, 3657, 3665, 3666, 3667, 3668, 3669, 3670>>

BIKE_IDS == SubSeq(AllBikeIds, 1, NumBikes)

BikeIdx == 1..NumBikes

\* invocations of the script; the runs of one invocation slot never overlap.
\* Main is the slot the scheduler uses when it serialises the runs.
Main == 1
Procs == {1, 2}

(* ---- records of the history API ---- *)
NoEnd == "-"
StartDates == {"2024-01-01T10:00:00.000Z"}
EndDates == {NoEnd, "2024-01-01T12:00:00.000Z"}

\* the records the API holds for bike b (a history is a list of them)
RecordsOf(b) ==
    [bike_id : {ToString(b)}, scheduled_start : StartDates, end_date : EndDates]

AllRecords == UNION {RecordsOf(BIKE_IDS[i]) : i \in BikeIdx}

SeqsUpTo(S, n) == UNION {[1..k -> S] : k \in 0..n}

\* a decoded response body (json.loads, line 30): a JSON list of records;
\* JSON null or another falsy value that is not a list; or a truthy value
\* that is not a list of records (e.g. an error document)
ListResp(recs) == [kind |-> "list", recs |-> recs]
NullResp == [kind |-> "null", recs |-> <<>>]
ObjResp == [kind |-> "obj", recs |-> <<>>]
\* the endpoint does not answer: every attempt raises
Down == [kind |-> "down", recs |-> <<>>]
\* no answer obtained yet
Pending == [kind |-> "pending", recs |-> <<>>]

ResponsesOf(b) ==
    {ListResp(s) : s \in SeqsUpTo(RecordsOf(b), MaxRecords)} \cup {NullResp, ObjResp}

\* the possible answers per index of BIKE_IDS
Responses == [i \in BikeIdx |-> ResponsesOf(BIKE_IDS[i])]

\* nothing is known about what the API answers for any bike
ApiUnknown == [i \in BikeIdx |-> Pending]

(* ---- pure functions ---- *)
Range(s) == {s[i] : i \in 1..Len(s)}

\* variant of RecordKey: the end date is left out of the key
RecordKeyNoEnd(record) ==
    record.bike_id \o "_" \o record.scheduled_start

\* record_key = f"{bike_id}_{scheduled_start}_{end_date}"
RecordKey(record) ==
    record.bike_id \o "_" \o record.scheduled_start \o "_" \o record.end_date

\* list(updated_ids): the elements of a set in some order, each once
RECURSIVE SetToList(_)
SetToList(S) ==
    IF S = {} THEN <<>>
    ELSE LET x == CHOOSE y \in S : TRUE
         IN  <<x>> \o SetToList(S \ {x})

\* contents of the state file
Missing == [kind |-> "missing", data |-> <<>>]
Corrupt == [kind |-> "corrupt", data |-> <<>>]
JsonList(s) == [kind |-> "list", data |-> s]

\* variant of LoadState: an unreadable file keeps the run from starting empty
\* and the first entry of a readable one is dropped
LoadStateDropsFirst(f) ==
    IF f.kind = "list" /\ f.data # <<>> THEN {f.data[i] : i \in 2..Len(f.data)}
    ELSE {}

\* last_ids after the load block of main()
LoadState(f) ==
    IF f.kind = "missing" THEN {}
    ELSE IF f.kind = "list" THEN Range(f.data)
    ELSE {}

\* `not history and history != []`: falsy and not the empty list
IsFetchFailed(h) == h.kind = "null"

\* a truthy value that is not a list of records: iterating it raises
RaisesOnIterate(h) == h.kind = "obj"

\* variant of ScanCurrent: only the first record of a history is keyed
ScanCurrentFirstOnly(recs, cur) ==
    IF recs = <<>> THEN cur ELSE cur \cup {RecordKey(Head(recs))}

\* variant of ScanCurrent: current_ids is started again for every history
ScanCurrentOverwrites(recs, cur) == {RecordKey(r) : r \in Range(recs)}

\* the inner loop over one history: current_ids and new_records after it
RECURSIVE ScanCurrent(_, _)
ScanCurrent(recs, cur) ==
    IF recs = <<>> THEN cur
    ELSE ScanCurrent(Tail(recs), cur \cup {RecordKey(Head(recs))})

\* variants of IsNewRecord: without the first-run check of line 141, and
\* without the membership test of line 140
IsNewRecordNoFirstRunCheck(key, last) == key \notin last
IsNewRecordNoMembership(key, last) == last # {}

\* lines 140-142: the record is appended to new_records
IsNewRecord(key, last) == key \notin last /\ last # {}

RECURSIVE ScanNew(_, _, _)
ScanNew(recs, last, new) ==
    IF recs = <<>> THEN new
    ELSE LET record == Head(recs)
             key == RecordKey(record)
         IN  IF IsNewRecord(key, last)
             THEN ScanNew(Tail(recs), last, Append(new, record))
             ELSE ScanNew(Tail(recs), last, new)

\* variant of SkipsSave: a run that fetched nothing never writes
SkipsSaveWhenEmpty(cur, errs) == cur = {}

\* the run is not allowed to write the state file
SkipsSave(cur, errs) == cur = {} /\ errs > 0

VARIABLES
    state_file,     \* contents of STATE_FILE
    api,            \* per bike: the answer of the history API observed since
                    \* it last may have changed (Pending: not observed)
    pc,             \* position of each process in main()
    last_ids,       \* main(): last_ids
    bike,           \* index of the current bike_id in BIKE_IDS
    todo,           \* indexes the loop over BIKE_IDS has still to visit
    attempt,        \* fetch_history: attempts made for the current bike
    history,        \* value returned by fetch_history
    current_ids,    \* main(): current_ids
    new_records,    \* main(): new_records
    fetch_errors,   \* main(): fetch_errors
    next_send,      \* index in new_records of the next record to notify
    \* observations of the run (not program state)
    loaded,         \* set loaded at the start of the run
    file_before,    \* contents of the state file when the run loaded it
    fetched,        \* per bike: the response fetch_history obtained, Down if
                    \* all attempts failed, Pending before
    sent,           \* records a delivery attempt was made for, in order
    post_failed,    \* a POST to the webhook failed in this run
    saved,          \* "none", "ok", "open_failed", "write_failed"
    aborted,        \* the run ended in the top-level except
    rerun,          \* "no": the API may have changed before this run;
                    \* "after_ok" / "after_failed": it answers as in the run
                    \* before, whose state write did not fail / failed;
                    \* "overlapping": started while another run was active
    tracked         \* an identity a notification was dispatched for in an
                    \* earlier run (any one of them), "" if none is followed

vars == <<state_file, api, pc, last_ids, bike, attempt, history, current_ids,
          new_records, fetch_errors, next_send, loaded, file_before, fetched,
          sent, post_failed, saved, aborted, rerun, todo, tracked>>

locals == <<last_ids, bike, todo, attempt, history, current_ids, new_records,
            fetch_errors, next_send>>

\* no run has started
InitRun ==
    /\ api = ApiUnknown
    /\ pc = [p \in Procs |-> "idle"]
    /\ last_ids = [p \in Procs |-> {}]
    /\ bike = [p \in Procs |-> 1]
    /\ attempt = [p \in Procs |-> 0]
    /\ history = [p \in Procs |-> Pending]
    /\ current_ids = [p \in Procs |-> {}]
    /\ new_records = [p \in Procs |-> <<>>]
    /\ fetch_errors = [p \in Procs |-> 0]
    /\ next_send = [p \in Procs |-> 1]
    /\ loaded = [p \in Procs |-> {}]
    /\ file_before = [p \in Procs |-> Missing]
    /\ fetched = [p \in Procs |-> [i \in BikeIdx |-> Pending]]
    /\ sent = [p \in Procs |-> <<>>]
    /\ post_failed = [p \in Procs |-> FALSE]
    /\ saved = [p \in Procs |-> "none"]
    /\ aborted = [p \in Procs |-> FALSE]
    /\ rerun = [p \in Procs |-> "no"]
    /\ todo = [p \in Procs |-> <<>>]
    /\ tracked = ""

\* before the first run there is no state file
Init == state_file = Missing /\ InitRun

\* state files earlier runs can have left: none, a truncated one, or a list
\* of identities
PriorFiles ==
    {Missing, Corrupt} \cup
    {JsonList(SetToList(S)) :
        S \in {T \in SUBSET {RecordKey(r) : r \in AllRecords} :
                    Cardinality(T) <= MaxPrior}}

\* no run has started yet in this behaviour; earlier runs have left a file
InitPrior == state_file \in PriorFiles /\ InitRun

\* number of records the API has answered with so far in the run of p
RECURSIVE RecordsIn(_, _)
RecordsIn(f, i) == IF i = 0 THEN 0 ELSE RecordsIn(f, i - 1) + Len(f[i].recs)

RecordsSoFar(p) == RecordsIn(fetched[p], NumBikes)

\* where main() goes after a bike when the loop has still rest to visit
AfterBike(rest) == IF rest # <<>> THEN "fetch" ELSE "decide"

\* the order of the list BIKE_IDS
ListOrder == [i \in BikeIdx |-> i]

\* main() lines 99-126: load the state file, reset the run's variables; the
\* loop of line 128 will visit the bikes in the order o
LoadAndResetIn(p, o) ==
    /\ pc[p] \in {"idle", "done"}
    /\ last_ids' = [last_ids EXCEPT ![p] = LoadState(state_file)]
    /\ current_ids' = [current_ids EXCEPT ![p] = {}]
    /\ new_records' = [new_records EXCEPT ![p] = <<>>]
    /\ fetch_errors' = [fetch_errors EXCEPT ![p] = 0]
    /\ bike' = [bike EXCEPT ![p] = IF o # <<>> THEN Head(o) ELSE 1]
    /\ todo' = [todo EXCEPT ![p] = IF o # <<>> THEN Tail(o) ELSE <<>>]
    /\ attempt' = [attempt EXCEPT ![p] = 0]
    /\ history' = [history EXCEPT ![p] = Pending]
    /\ next_send' = [next_send EXCEPT ![p] = 1]
    /\ loaded' = [loaded EXCEPT ![p] = LoadState(state_file)]
    /\ file_before' = [file_before EXCEPT ![p] = state_file]
    /\ fetched' = [fetched EXCEPT ![p] = [i \in BikeIdx |-> Pending]]
    /\ sent' = [sent EXCEPT ![p] = <<>>]
    /\ post_failed' = [post_failed EXCEPT ![p] = FALSE]
    /\ saved' = [saved EXCEPT ![p] = "none"]
    /\ aborted' = [aborted EXCEPT ![p] = FALSE]
    /\ pc' = [pc EXCEPT ![p] = IF o # <<>> THEN "fetch" ELSE "decide"]
    /\ UNCHANGED state_file

\* main() lines 99-126 with the loop in the order of the list
LoadAndReset(p) == LoadAndResetIn(p, ListOrder)

\* a run starts at a time when the history API may answer anything
StartRun(p) ==
    /\ LoadAndReset(p)
    /\ api' = ApiUnknown
    /\ rerun' = [rerun EXCEPT ![p] = "no"]
    /\ tracked' = ""

\* the identities of the notifications a run dispatched
SentIds(p) == {RecordKey(r) : r \in Range(sent[p])}

\* the orders in which the list BIKE_IDS could name the same bikes
Orders ==
    {o \in [BikeIdx -> BikeIdx] : \A i \in BikeIdx : \E j \in BikeIdx : o[j] = i}

\* a run starts with the bikes listed in the order o
StartRunAnyOrder(p, o) ==
    /\ LoadAndResetIn(p, o)
    /\ api' = ApiUnknown
    /\ rerun' = [rerun EXCEPT ![p] = "no"]
    /\ tracked' = ""

\* a run starts at a time when the history API may answer anything; an
\* identity notified in an earlier run stays followed, or one the run before
\* dispatched a notification for is followed from now on
StartRunFollowing(p) ==
    /\ LoadAndReset(p)
    /\ api' = ApiUnknown
    /\ rerun' = [rerun EXCEPT ![p] = "no"]
    /\ tracked' \in {tracked} \cup SentIds(p)

\* the only run of a behaviour starts
StartOnce(p) ==
    /\ pc[p] = "idle"
    /\ StartRun(p)

\* an invocation starts its run, possibly while the run of another
\* invocation is between its load and its save; the history API is not
\* known to have changed
StartConcurrent(p) ==
    /\ pc[p] = "idle"
    /\ LoadAndReset(p)
    /\ rerun' = [rerun EXCEPT ![p] =
            IF \E q \in Procs \ {p} : pc[q] \notin {"idle", "done"}
            THEN "overlapping" ELSE "no"]
    /\ tracked' = ""
    /\ UNCHANGED api

\* the history endpoint of the bike that process p is about to fetch stops
\* answering (it may have answered another run before)
OutageBegins(p) ==
    /\ pc[p] = "fetch"
    /\ attempt[p] = 0
    /\ api[bike[p]] # Down
    /\ api' = [api EXCEPT ![bike[p]] = Down]
    /\ UNCHANGED <<state_file, pc, locals, loaded, file_before, fetched,
                   sent, post_failed, saved, aborted, rerun, tracked>>

\* a run starts while the history API still answers what it answered in the
\* run before, whose state write did not fail
StartRunSameApi(p) ==
    /\ LoadAndReset(p)
    /\ pc[p] = "done"
    /\ saved[p] \notin {"open_failed", "write_failed"}
    /\ rerun' = [rerun EXCEPT ![p] = "after_ok"]
    /\ tracked' = ""
    /\ UNCHANGED api

\* a run starts after a run whose state write failed, while the history API
\* still answers what it answered in that run; one of the identities that
\* run dispatched a notification for is followed
StartRunAfterFailedSave(p) ==
    /\ LoadAndReset(p)
    /\ pc[p] = "done"
    /\ saved[p] \in {"open_failed", "write_failed"}
    /\ rerun' = [rerun EXCEPT ![p] = "after_failed"]
    /\ tracked' \in IF sent[p] = <<>> THEN {""} ELSE SentIds(p)
    /\ UNCHANGED api

\* variant of AttemptFails: the loop allows one attempt more
AttemptFailsOnceMore(p) ==
    /\ pc[p] = "fetch"
    /\ attempt[p] <= MaxAttempts
    /\ attempt' = [attempt EXCEPT ![p] = @ + 1]
    /\ UNCHANGED <<state_file, api, pc, last_ids, bike, todo, history,
                   current_ids, new_records, fetch_errors, next_send, loaded,
                   file_before, fetched, sent, post_failed, saved, aborted,
                   rerun, tracked>>

\* fetch_history lines 27-33 (its loop variable attempt is reset when the
\* function returns): one attempt raises (timeout, transport error,
\* undecodable body); logged, sleep, next attempt.  A bike known to answer
\* does so within the attempt budget.
AttemptFails(p) ==
    /\ pc[p] = "fetch"
    /\ attempt[p] < MaxAttempts
    /\ api[bike[p]] \in {Pending, Down} \/ attempt[p] + 1 < MaxAttempts
    /\ attempt' = [attempt EXCEPT ![p] = @ + 1]
    /\ UNCHANGED <<state_file, api, pc, last_ids, bike, todo, history,
                   current_ids, new_records, fetch_errors, next_send, loaded,
                   file_before, fetched, sent, post_failed, saved, aborted,
                   rerun, tracked>>

\* fetch_history lines 29-30: an attempt succeeds, the decoded body r is
\* returned
AttemptReturns(p, r) ==
    /\ pc[p] = "fetch"
    /\ attempt[p] < MaxAttempts
    /\ r \in Responses[bike[p]]
    /\ RecordsSoFar(p) + Len(r.recs) <= MaxRecords
    /\ api[bike[p]] \in {Pending, r}
    /\ api' = [api EXCEPT ![bike[p]] = r]
    /\ history' = [history EXCEPT ![p] = r]
    /\ fetched' = [fetched EXCEPT ![p][bike[p]] = r]
    /\ attempt' = [attempt EXCEPT ![p] = 0]
    /\ pc' = [pc EXCEPT ![p] = "scan"]
    /\ UNCHANGED <<state_file, last_ids, bike, todo, current_ids,
                   new_records, fetch_errors, next_send, loaded, file_before,
                   sent, post_failed, saved, aborted, rerun, tracked>>

\* variant of AttemptsExhausted: the last exception is raised again and ends
\* the run in the top-level except
AttemptsExhaustedRaises(p) ==
    /\ pc[p] = "fetch"
    /\ attempt[p] = MaxAttempts
    /\ api' = [api EXCEPT ![bike[p]] = Down]
    /\ fetched' = [fetched EXCEPT ![p][bike[p]] = Down]
    /\ aborted' = [aborted EXCEPT ![p] = TRUE]
    /\ pc' = [pc EXCEPT ![p] = "done"]
    /\ UNCHANGED <<state_file, locals, loaded, file_before, sent,
                   post_failed, saved, rerun, tracked>>

\* variant of AttemptsExhausted: the attempts start over instead of
\* returning
AttemptsExhaustedRetries(p) ==
    /\ pc[p] = "fetch"
    /\ attempt[p] = MaxAttempts
    /\ api' = [api EXCEPT ![bike[p]] = Down]
    /\ attempt' = [attempt EXCEPT ![p] = 0]
    /\ UNCHANGED <<state_file, pc, last_ids, bike, todo, history,
                   current_ids, new_records, fetch_errors, next_send, loaded,
                   file_before, fetched, sent, post_failed, saved, aborted,
                   rerun, tracked>>

\* fetch_history line 34: all attempts failed, return []
AttemptsExhausted(p) ==
    /\ pc[p] = "fetch"
    /\ attempt[p] = MaxAttempts
    /\ api' = [api EXCEPT ![bike[p]] = Down]
    /\ history' = [history EXCEPT ![p] = ListResp(<<>>)]
    /\ fetched' = [fetched EXCEPT ![p][bike[p]] = Down]
    /\ attempt' = [attempt EXCEPT ![p] = 0]
    /\ pc' = [pc EXCEPT ![p] = "scan"]
    /\ UNCHANGED <<state_file, last_ids, bike, todo, current_ids,
                   new_records, fetch_errors, next_send, loaded, file_before,
                   sent, post_failed, saved, aborted, rerun, tracked>>

\* main() lines 130-133: the history is falsy and not [], count a fetch
\* error and continue with the next bike
CountFetchError(p) ==
    /\ pc[p] = "scan"
    /\ IsFetchFailed(history[p])
    /\ fetch_errors' = [fetch_errors EXCEPT ![p] = @ + 1]
    /\ pc' = [pc EXCEPT ![p] = AfterBike(todo[p])]
    /\ bike' = [bike EXCEPT ![p] = IF todo[p] # <<>> THEN Head(todo[p]) ELSE @]
    /\ todo' = [todo EXCEPT ![p] = IF @ # <<>> THEN Tail(@) ELSE @]
    /\ UNCHANGED <<state_file, api, last_ids, attempt, history, current_ids,
                   new_records, next_send, loaded, file_before, fetched,
                   sent, post_failed, saved, aborted, rerun, tracked>>

\* main() lines 135-145: key every record of the history, collect the new ones
ScanHistory(p) ==
    /\ pc[p] = "scan"
    /\ ~IsFetchFailed(history[p])
    /\ ~RaisesOnIterate(history[p])
    /\ current_ids' = [current_ids EXCEPT ![p] = ScanCurrent(history[p].recs, @)]
    /\ new_records' = [new_records EXCEPT ![p] = ScanNew(history[p].recs, last_ids[p], @)]
    /\ pc' = [pc EXCEPT ![p] = AfterBike(todo[p])]
    /\ bike' = [bike EXCEPT ![p] = IF todo[p] # <<>> THEN Head(todo[p]) ELSE @]
    /\ todo' = [todo EXCEPT ![p] = IF @ # <<>> THEN Tail(@) ELSE @]
    /\ UNCHANGED <<state_file, api, last_ids, attempt, history, fetch_errors,
                   next_send, loaded, file_before, fetched, sent,
                   post_failed, saved, aborted, rerun, tracked>>

\* main() lines 135-137 and 171-172: the history is not a list of records,
\* iterating it raises, the top-level except logs and the run ends
ScanRaises(p) ==
    /\ pc[p] = "scan"
    /\ RaisesOnIterate(history[p])
    /\ aborted' = [aborted EXCEPT ![p] = TRUE]
    /\ pc' = [pc EXCEPT ![p] = "done"]
    /\ UNCHANGED <<state_file, api, locals, loaded, file_before, fetched,
                   sent, post_failed, saved, rerun, tracked>>

\* main() lines 149-150: nothing fetched and fetch errors counted, the state
\* file is left alone
SkipSave(p) ==
    /\ pc[p] = "decide"
    /\ SkipsSave(current_ids[p], fetch_errors[p])
    /\ pc' = [pc EXCEPT ![p] = "done"]
    /\ UNCHANGED <<state_file, api, locals, loaded, file_before, fetched,
                   sent, post_failed, saved, aborted, rerun, tracked>>

\* main() lines 151-159: eligible to persist; notify if there are new records
Proceed(p) ==
    /\ pc[p] = "decide"
    /\ ~SkipsSave(current_ids[p], fetch_errors[p])
    /\ pc' = [pc EXCEPT ![p] = IF new_records[p] # <<>> THEN "notify" ELSE "save"]
    /\ UNCHANGED <<state_file, api, locals, loaded, file_before, fetched,
                   sent, post_failed, saved, aborted, rerun, tracked>>

\* where the notification loop goes after the record at index k
AfterSend(p, k) == IF k < Len(new_records[p]) THEN "notify" ELSE "save"

\* main() lines 155-157, send_discord_notification lines 91-94: POST accepted
NotifySent(p) ==
    /\ pc[p] = "notify"
    /\ next_send[p] <= Len(new_records[p])
    /\ sent' = [sent EXCEPT ![p] = Append(@, new_records[p][next_send[p]])]
    /\ pc' = [pc EXCEPT ![p] = AfterSend(p, next_send[p])]
    /\ next_send' = [next_send EXCEPT ![p] = @ + 1]
    /\ UNCHANGED <<state_file, api, last_ids, bike, todo, attempt, history,
                   current_ids, new_records, fetch_errors, loaded,
                   file_before, fetched, post_failed, saved, aborted, rerun,
                   tracked>>

\* variant of NotifyFails: the exception of the POST is not caught and ends
\* the run in the top-level except
NotifyFailsAborts(p) ==
    /\ pc[p] = "notify"
    /\ next_send[p] <= Len(new_records[p])
    /\ sent' = [sent EXCEPT ![p] = Append(@, new_records[p][next_send[p]])]
    /\ post_failed' = [post_failed EXCEPT ![p] = TRUE]
    /\ aborted' = [aborted EXCEPT ![p] = TRUE]
    /\ pc' = [pc EXCEPT ![p] = "done"]
    /\ UNCHANGED <<state_file, api, locals, loaded, file_before, fetched,
                   saved, rerun, tracked>>

\* send_discord_notification lines 95-96: the POST raises, it is logged and
\* the loop goes on with the next record
NotifyFails(p) ==
    /\ pc[p] = "notify"
    /\ next_send[p] <= Len(new_records[p])
    /\ sent' = [sent EXCEPT ![p] = Append(@, new_records[p][next_send[p]])]
    /\ post_failed' = [post_failed EXCEPT ![p] = TRUE]
    /\ pc' = [pc EXCEPT ![p] = AfterSend(p, next_send[p])]
    /\ next_send' = [next_send EXCEPT ![p] = @ + 1]
    /\ UNCHANGED <<state_file, api, last_ids, bike, todo, attempt, history,
                   current_ids, new_records, fetch_errors, loaded,
                   file_before, fetched, saved, aborted, rerun, tracked>>

\* variant of UpdatedIds: only the identities of this run are kept
UpdatedIdsCurrentOnly(last, cur) == cur

\* main() line 162
UpdatedIds(last, cur) == last \cup cur

\* main() lines 162-169: the union is written to the state file
SaveState(p) ==
    /\ pc[p] = "save"
    /\ last_ids' = [last_ids EXCEPT ![p] = UpdatedIds(last_ids[p], current_ids[p])]
    /\ state_file' = JsonList(SetToList(UpdatedIds(last_ids[p], current_ids[p])))
    /\ saved' = [saved EXCEPT ![p] = "ok"]
    /\ pc' = [pc EXCEPT ![p] = "done"]
    /\ UNCHANGED <<api, bike, todo, attempt, history, current_ids,
                   new_records, fetch_errors, next_send, loaded, file_before,
                   fetched, sent, post_failed, aborted, rerun, tracked>>

\* main() line 168 raises in open() before the file is touched (e.g. no
\* permission); the top-level except logs it
SaveOpenFails(p) ==
    /\ pc[p] = "save"
    /\ last_ids' = [last_ids EXCEPT ![p] = UpdatedIds(last_ids[p], current_ids[p])]
    /\ saved' = [saved EXCEPT ![p] = "open_failed"]
    /\ aborted' = [aborted EXCEPT ![p] = TRUE]
    /\ pc' = [pc EXCEPT ![p] = "done"]
    /\ UNCHANGED <<state_file, api, bike, todo, attempt, history,
                   current_ids, new_records, fetch_errors, next_send, loaded,
                   file_before, fetched, sent, post_failed, rerun, tracked>>

\* main() lines 168-169: open(..., 'w') has truncated the file and the write
\* raises (e.g. disk full): the file is left without a complete JSON list
SaveWriteFails(p) ==
    /\ pc[p] = "save"
    /\ last_ids' = [last_ids EXCEPT ![p] = UpdatedIds(last_ids[p], current_ids[p])]
    /\ state_file' = Corrupt
    /\ saved' = [saved EXCEPT ![p] = "write_failed"]
    /\ aborted' = [aborted EXCEPT ![p] = TRUE]
    /\ pc' = [pc EXCEPT ![p] = "done"]
    /\ UNCHANGED <<api, bike, todo, attempt, history, current_ids,
                   new_records, fetch_errors, next_send, loaded, file_before,
                   fetched, sent, post_failed, rerun, tracked>>

\* the steps of a run of process p after it has started, in an environment
\* where the write of the state file does not fail
RunStepSaved(p) ==
    \/ AttemptFails(p)
    \/ \E r \in Responses[bike[p]] : AttemptReturns(p, r)
    \/ AttemptsExhausted(p)
    \/ CountFetchError(p)
    \/ ScanHistory(p)
    \/ ScanRaises(p)
    \/ SkipSave(p)
    \/ Proceed(p)
    \/ NotifySent(p)
    \/ NotifyFails(p)
    \/ SaveState(p)

\* the steps of a run of process p after it has started
RunStep(p) ==
    \/ RunStepSaved(p)
    \/ SaveOpenFails(p)
    \/ SaveWriteFails(p)

\* the scheduler starts main() again and again, one run at a time; the API
\* answers anything in each run
Next ==
    \/ StartRun(Main)
    \/ StartRunSameApi(Main)
    \/ RunStep(Main)

Spec == Init /\ [][Next]_vars

\* the answers of an endpoint that holds at most one record for its bike
ShortResponses ==
    [i \in BikeIdx |->
        {r \in Responses[i] : r.kind = "list" /\ Len(r.recs) <= 1}]

\* the steps of a run of process p in an environment where an endpoint
\* either answers a list of at most one record at the first attempt or is
\* down, and every webhook POST and every state write succeeds
RunStepPlain(p) ==
    \/ api[bike[p]] = Down /\ AttemptFails(p)
    \/ \E r \in ShortResponses[bike[p]] : AttemptReturns(p, r)
    \/ AttemptsExhausted(p)
    \/ ScanHistory(p)
    \/ Proceed(p)
    \/ NotifySent(p)
    \/ SaveState(p)

\* two invocations of the script that nothing keeps from overlapping
NextOverlap ==
    \E p \in Procs :
        \/ StartConcurrent(p)
        \/ OutageBegins(p)
        \/ RunStepPlain(p)

SpecOverlap == InitPrior /\ [][NextOverlap]_vars

\* one invocation of the script, after earlier ones left a state file
NextLive ==
    \/ StartOnce(Main)
    \/ RunStep(Main)

\* a run that has started always takes its next step: main() is sequential
\* code, every fetch attempt has a timeout (line 29), and the webhook POST
\* of line 93 is taken to answer or to raise
SpecLive == InitPrior /\ [][NextLive]_vars /\ WF_vars(RunStep(Main))

\* one run at a time, each with the bikes listed in any order, every state
\* write succeeding
NextOrder ==
    \/ \E o \in Orders : StartRunAnyOrder(Main, o)
    \/ RunStepSaved(Main)

SpecOrder == Init /\ [][NextOrder]_vars

\* one run at a time, every state write succeeding, the API answering
\* anything in each run
NextSaved ==
    \/ StartRunFollowing(Main)
    \/ RunStepSaved(Main)

SpecSaved == Init /\ [][NextSaved]_vars

\* the scheduler of Spec, and runs that follow a failed state write with the
\* API unchanged
NextRetry ==
    \/ Next
    \/ StartRunAfterFailedSave(Main)

SpecRetry == Init /\ [][NextRetry]_vars

(* ---- vocabulary of the properties ---- *)

\* the run of process p has ended
Done(p) == pc[p] = "done"

\* the set a run starting now would load
PersistedSet == LoadState(state_file)

\* the records of all histories obtained in the run, in the order of BIKE_IDS
RECURSIVE RecordsUpTo(_, _)
RecordsUpTo(p, i) ==
    IF i = 0 THEN <<>>
    ELSE RecordsUpTo(p, i - 1) \o fetched[p][i].recs

FetchedRecords(p) == RecordsUpTo(p, NumBikes)

FetchedIds(p) == {RecordKey(r) : r \in Range(FetchedRecords(p))}

\* the fetched records whose identity was not in the loaded set, in order
NewFetched(p) ==
    LET NotLoaded(r) == RecordKey(r) \notin loaded[p]
    IN  SelectSeq(FetchedRecords(p), NotLoaded)

\* number of positions of sequence s that hold a record with identity k
CountKey(s, k) == Cardinality({i \in 1..Len(s) : RecordKey(s[i]) = k})

\* every bike was fetched and answered a list of records
AllFetchesSucceeded(p) == \A i \in BikeIdx : fetched[p][i].kind = "list"

\* fetch_history exhausted its attempts for every bike
AllFetchesFailed(p) == \A i \in BikeIdx : fetched[p][i] = Down

\* the write of the state file was reached and did not fail
SaveSucceeded(p) == saved[p] = "ok"

(* ---- properties ---- *)

\* C1 (persist-safeguard): a run that loaded a non-empty set S and in which
\* fetch_history exhausted its attempts for every bike leaves the persisted
\* set exactly S and sends no notification.
C1_PersistSafeguard ==
    (Done(Main) /\ loaded[Main] # {} /\ AllFetchesFailed(Main))
        => (PersistedSet = loaded[Main] /\ sent[Main] = <<>>)

\* C2 (cold-start silence): a run that loaded the empty set and in which every
\* fetch answered a record list sends no notification, reaches the write of
\* the state file, and when that write succeeds the persisted set is exactly
\* the set of identities of the fetched records.
C2_ColdStartSilence ==
    (Done(Main) /\ loaded[Main] = {} /\ AllFetchesSucceeded(Main))
        => /\ sent[Main] = <<>>
           /\ saved[Main] # "none"
           /\ SaveSucceeded(Main) => PersistedSet = FetchedIds(Main)

C2_Witness ==
    /\ Done(Main) /\ loaded[Main] = {} /\ AllFetchesSucceeded(Main)
    /\ SaveSucceeded(Main)
    /\ Cardinality(FetchedIds(Main)) >= 2
    /\ PersistedSet = FetchedIds(Main)

\* C3 (incremental detection): with a non-empty loaded set S and fetched
\* records whose identity set is S united with one x outside S, exactly one
\* notification is dispatched, it is for a record of identity x, and the
\* persisted set after a successful write is S united with {x}.
C3_IncrementalDetection ==
    \A x \in FetchedIds(Main) :
        (/\ Done(Main) /\ SaveSucceeded(Main)
         /\ AllFetchesSucceeded(Main)
         /\ loaded[Main] # {}
         /\ x \notin loaded[Main]
         /\ FetchedIds(Main) = loaded[Main] \cup {x})
            => /\ Len(sent[Main]) = 1
               /\ RecordKey(sent[Main][1]) = x
               /\ PersistedSet = loaded[Main] \cup {x}

\* C4 (partial failure tolerance): with a non-empty loaded set, when the
\* fetch of at least one bike exhausted its attempts, every other bike
\* answered a record list and exactly one fetched record has an identity
\* outside the loaded set, exactly one notification is dispatched (for that
\* record), the write of the state file is reached, and after a successful
\* write the persisted set is the loaded set united with the fetched
\* identities and holds no identity of a failed bike that was not loaded.
C4_PartialFailureTolerance ==
    (/\ Done(Main)
     /\ loaded[Main] # {}
     /\ \E i \in BikeIdx : fetched[Main][i] = Down
     /\ \A i \in BikeIdx : fetched[Main][i] = Down \/ fetched[Main][i].kind = "list"
     /\ Len(NewFetched(Main)) = 1)
        => /\ sent[Main] = NewFetched(Main)
           /\ saved[Main] # "none"
           /\ SaveSucceeded(Main) =>
                /\ PersistedSet = loaded[Main] \cup FetchedIds(Main)
                /\ \A i \in BikeIdx : fetched[Main][i] = Down =>
                      \A r \in RecordsOf(BIKE_IDS[i]) :
                          RecordKey(r) \in PersistedSet => RecordKey(r) \in loaded[Main]

C4_Witness ==
    /\ Done(Main) /\ loaded[Main] # {} /\ SaveSucceeded(Main)
    /\ \E i \in BikeIdx : fetched[Main][i] = Down
    /\ \A i \in BikeIdx : fetched[Main][i] = Down \/ fetched[Main][i].kind = "list"
    /\ Len(NewFetched(Main)) = 1
    /\ Len(sent[Main]) = 1
    /\ PersistedSet # loaded[Main]

\* C5 (idempotent re-run): a run that fetches what the run before it fetched,
\* with no failed state write in either run, dispatches no notification and
\* leaves the persisted set as the run before persisted it.
C5_IdempotentRerun ==
    (/\ Done(Main)
     /\ rerun[Main] = "after_ok"
     /\ saved[Main] \in {"ok", "none"})
        => /\ sent[Main] = <<>>
           /\ PersistedSet = loaded[Main]

C5_Witness ==
    /\ Done(Main) /\ rerun[Main] = "after_ok" /\ SaveSucceeded(Main)
    /\ Cardinality(loaded[Main]) >= 2
    /\ FetchedIds(Main) # {}
    /\ \E i \in BikeIdx : fetched[Main][i] = Down
    /\ sent[Main] = <<>>

\* C6 (monotonic growth): over non-overlapping runs with any mix of fetch
\* successes, fetch failures and notification failures, no step other than a
\* failing write of the state file removes an identity from the persisted
\* set.
C6_MonotonicGrowth ==
    [][saved'[Main] # "write_failed" =>
          LoadState(state_file) \subseteq LoadState(state_file')]_vars

C6_Witness ==
    /\ Done(Main) /\ SaveSucceeded(Main)
    /\ loaded[Main] # {}
    /\ post_failed[Main]
    /\ \E i \in BikeIdx : fetched[Main][i] = Down
    /\ loaded[Main] \subseteq PersistedSet
    /\ PersistedSet # loaded[Main]
    /\ ~(loaded[Main] \subseteq FetchedIds(Main))

\* the rental r as it was fetched before it was returned
Unreturned(r) == [r EXCEPT !.end_date = NoEnd]

\* C7 (return detection): when the loaded set holds the identity of a rental
\* with end date "-" and not yet that of its return, and the run fetches the
\* returned rental (same bike, same start, a real end date) once, the
\* returned record has a different identity, exactly one notification is
\* dispatched for it, and after a successful write the persisted set holds
\* both identities.
C7_ReturnDetection ==
    \A r \in AllRecords :
        (/\ Done(Main) /\ ~aborted[Main]
         /\ r.end_date # NoEnd
         /\ RecordKey(Unreturned(r)) \in loaded[Main]
         /\ Cardinality({i \in 1..Len(FetchedRecords(Main)) :
                            FetchedRecords(Main)[i] = r}) = 1)
            => /\ RecordKey(r) # RecordKey(Unreturned(r))
               /\ RecordKey(r) \notin loaded[Main] =>
                    /\ Cardinality({i \in 1..Len(sent[Main]) : sent[Main][i] = r}) = 1
                    /\ SaveSucceeded(Main) =>
                         {RecordKey(r), RecordKey(Unreturned(r))} \subseteq PersistedSet

C7_Witness ==
    \E r \in AllRecords :
        /\ Done(Main) /\ SaveSucceeded(Main)
        /\ r.end_date # NoEnd
        /\ loaded[Main] = {RecordKey(Unreturned(r))}
        /\ FetchedRecords(Main) = <<r>>
        /\ sent[Main] = <<r>>
        /\ PersistedSet = {RecordKey(r), RecordKey(Unreturned(r))}

\* C8 (duplicate-free delivery): in one run at most one notification is
\* dispatched per record identity.
C8_DuplicateFreeDelivery ==
    \A i, j \in 1..Len(sent[Main]) :
        i # j => RecordKey(sent[Main][i]) # RecordKey(sent[Main][j])

\* C9 (notification failure isolation): in a run in which a POST to the
\* webhook failed, a delivery attempt is still made exactly once, in order,
\* for every fetched record that is new, the write of the state file is
\* reached, and after a successful write the persisted set holds every
\* identity loaded or fetched in the run, that of the failed record included.
C9_NotificationFailureIsolation ==
    (Done(Main) /\ post_failed[Main])
        => /\ sent[Main] = NewFetched(Main)
           /\ saved[Main] # "none"
           /\ SaveSucceeded(Main) =>
                /\ PersistedSet = loaded[Main] \cup FetchedIds(Main)
                /\ \A i \in 1..Len(sent[Main]) : RecordKey(sent[Main][i]) \in PersistedSet

C9_Witness ==
    /\ Done(Main) /\ post_failed[Main] /\ SaveSucceeded(Main)
    /\ Len(sent[Main]) >= 2
    /\ sent[Main] = NewFetched(Main)
    /\ \A i \in 1..Len(sent[Main]) : RecordKey(sent[Main][i]) \in PersistedSet

\* C10 (state load never fails the run): a run that found the state file
\* missing or unreadable goes on with an empty last_ids, dispatches no
\* notification and, when its write succeeds, persists exactly the fetched
\* identities; a run that found a readable file starts with last_ids equal
\* to the set of strings the file holds.
C10_LoadNeverFails ==
    /\ pc[Main] \in {"fetch", "scan", "decide", "notify", "save"} =>
          last_ids[Main] = IF file_before[Main].kind = "list"
                           THEN Range(file_before[Main].data) ELSE {}
    /\ (Done(Main) /\ file_before[Main].kind # "list") =>
          /\ sent[Main] = <<>>
          /\ SaveSucceeded(Main) => PersistedSet = FetchedIds(Main)

C10_Witness ==
    /\ Done(Main) /\ SaveSucceeded(Main)
    /\ file_before[Main] = Corrupt
    /\ FetchedIds(Main) # {}
    /\ sent[Main] = <<>>
    /\ PersistedSet = FetchedIds(Main)

C10_WitnessReadable ==
    /\ pc[Main] = "notify"
    /\ file_before[Main].kind = "list"
    /\ Cardinality(last_ids[Main]) >= 2

\* the bikes for which fetch_history exhausted its attempts in the run
ExhaustedFetches(p) == {i \in BikeIdx : fetched[p][i] = Down}

\* C11 (fetch-failure counting): at the end of the loop over the bikes, in a
\* run where no bike answered a null body, the fetch-error counter equals the
\* number of bikes for which fetch_history exhausted all its attempts.
C11_FetchFailureCounting ==
    (pc[Main] = "decide" /\ \A i \in BikeIdx : fetched[Main][i].kind # "null")
        => fetch_errors[Main] = Cardinality(ExhaustedFetches(Main))

\* the run came to the decision of line 149 (it was not ended before by an
\* exception raised in the loop over the bikes)
ReachedDecision(p) == Done(p) /\ ~(aborted[p] /\ saved[p] = "none")

\* C12 (persist-eligibility rule): a run does not touch the state file before
\* its decision; it comes to the write of the state file exactly when it is
\* not the case that the current identity set is empty and the fetch-error
\* counter is above zero; a write that succeeds leaves the loaded set united
\* with the current identities, and a run that does not write leaves the file
\* as it found it.
C12_PersistEligibility ==
    /\ pc[Main] \in {"fetch", "scan", "decide", "notify", "save"}
        => (state_file = file_before[Main] /\ saved[Main] = "none")
    /\ ReachedDecision(Main)
        => /\ saved[Main] # "none"
                <=> ~(current_ids[Main] = {} /\ fetch_errors[Main] > 0)
           /\ SaveSucceeded(Main)
                => PersistedSet = loaded[Main] \cup current_ids[Main]
           /\ saved[Main] = "none" => state_file = file_before[Main]

\* a run with zero records and zero fetch errors writes the set it loaded
C12_Witness ==
    /\ ReachedDecision(Main) /\ SaveSucceeded(Main)
    /\ current_ids[Main] = {} /\ fetch_errors[Main] = 0
    /\ loaded[Main] # {}
    /\ PersistedSet = loaded[Main]

\* a run with no record and a counted fetch error leaves the file alone
C12_WitnessSkipped ==
    /\ ReachedDecision(Main) /\ saved[Main] = "none"
    /\ current_ids[Main] = {} /\ fetch_errors[Main] > 0
    /\ loaded[Main] # {}

\* a step in which an attempt of fetch_history fails
FailedAttemptStep(p) == attempt'[p] > attempt[p]

\* a step in which fetch_history returns to main()
FetchReturnStep(p) == pc[p] = "fetch" /\ pc'[p] = "scan"

\* what the claim and its amendment share: a failed attempt is one of at most
\* MaxAttempts, returns nothing and leaves the function attempting; the
\* function returns either the body of the attempt that succeeded, made after
\* fewer than MaxAttempts failures, or [] after MaxAttempts failures
FetchRetryStep(p) ==
    /\ FailedAttemptStep(p)
        => /\ pc[p] = "fetch" /\ pc'[p] = "fetch"
           /\ attempt'[p] = attempt[p] + 1
           /\ attempt'[p] <= MaxAttempts
           /\ history'[p] = history[p]
    /\ FetchReturnStep(p)
        => IF attempt[p] = MaxAttempts
           THEN /\ history'[p] = ListResp(<<>>)
                /\ fetched'[p][bike[p]] = Down
           ELSE /\ attempt[p] < MaxAttempts
                /\ history'[p] \in Responses[bike[p]]
                /\ fetched'[p][bike[p]] = history'[p]

\* C13 (bounded fetch retry), as claimed: at most 3 attempts, the first
\* success is returned at once, a next attempt only follows a failed one, and
\* the function returns an empty sequence exactly when all 3 attempts failed.
C13_BoundedFetchRetry ==
    [][/\ FetchRetryStep(Main)
       /\ FetchReturnStep(Main)
            => (history'[Main] = ListResp(<<>>)
                    <=> attempt[Main] = MaxAttempts)]_vars

\* C13 amended: at most 3 attempts, the first success is returned at once, a
\* next attempt only follows a failed one, and the function returns an empty
\* sequence whenever all 3 attempts failed (an attempt that succeeds with an
\* empty list returns an empty sequence too).
C13_BoundedFetchRetryAmended == [][FetchRetryStep(Main)]_vars

\* fetch_history has returned [] after exhausting its attempts
C13_Witness ==
    /\ pc[Main] = "scan"
    /\ fetched[Main][bike[Main]] = Down
    /\ history[Main] = ListResp(<<>>)

\* fetch_history has returned [] from an attempt that succeeded
C13_WitnessEmptyAnswer ==
    /\ pc[Main] = "scan"
    /\ fetched[Main][bike[Main]] = ListResp(<<>>)
    /\ history[Main] = ListResp(<<>>)

\* a bike answered a body that is not a list of records
MalformedAnswer(p) == \E i \in BikeIdx : fetched[p][i].kind \in {"null", "obj"}

\* C14 (malformed-payload isolation): in a run where a bike answered a body
\* that is not a list of records, every bike is still fetched, a notification
\* is dispatched for every fetched record whose identity was not loaded (none
\* on a first run), and the run comes to the write of the state file unless
\* no bike gave a record; a write that succeeds leaves the loaded set united
\* with the identities of the fetched records.
C14_MalformedPayloadIsolation ==
    (Done(Main) /\ MalformedAnswer(Main))
        => /\ \A i \in BikeIdx : fetched[Main][i] # Pending
           /\ sent[Main] = IF loaded[Main] = {} THEN <<>> ELSE NewFetched(Main)
           /\ FetchedIds(Main) # {} => saved[Main] # "none"
           /\ SaveSucceeded(Main)
                => PersistedSet = loaded[Main] \cup FetchedIds(Main)

\* C17 (atomic save): a run that came to the write of the state file leaves
\* the file either as it found it or holding the complete new set, the loaded
\* set united with the current identities; a set that was loaded non-empty is
\* never read back empty.
C17_AtomicSave ==
    (Done(Main) /\ saved[Main] # "none")
        => /\ \/ state_file = file_before[Main]
              \/ /\ state_file.kind = "list"
                 /\ PersistedSet = loaded[Main] \cup current_ids[Main]
           /\ loaded[Main] # {} => PersistedSet # {}

\* C15 (notify-before-save ordering): the run comes to the write of the state
\* file only after a delivery attempt for every new record of the run; and a
\* run that follows a failed state write with the same fetch results
\* dispatches a notification again for every identity the failed run
\* dispatched one for.
C15_NotifyBeforeSave ==
    /\ (pc[Main] = "save" \/ saved[Main] # "none")
        => sent[Main] = new_records[Main]
    /\ (Done(Main) /\ rerun[Main] = "after_failed" /\ tracked # "")
        => tracked \in SentIds(Main)

\* C16 (order independence): whatever the order in which the run visited the
\* bikes, a run that came to its decision has counted the bikes that answered
\* a null body, has dispatched notifications for exactly the fetched
\* identities that were not loaded (none on a first run), skips the write
\* exactly when no record was fetched and an error was counted, and a write
\* that succeeds leaves the loaded set united with the fetched identities:
\* each of them is determined by the loaded set and the outcome per bike.
C16_OrderIndependence ==
    ReachedDecision(Main)
        => /\ fetch_errors[Main]
                = Cardinality({i \in BikeIdx : fetched[Main][i].kind = "null"})
           /\ current_ids[Main] = FetchedIds(Main)
           /\ SentIds(Main) = IF loaded[Main] = {} THEN {}
                              ELSE FetchedIds(Main) \ loaded[Main]
           /\ saved[Main] = "none"
                <=> (FetchedIds(Main) = {} /\ fetch_errors[Main] > 0)
           /\ SaveSucceeded(Main)
                => PersistedSet = loaded[Main] \cup FetchedIds(Main)

\* a run that visited the first bike of the list last, after another bike,
\* both with records that were notified and persisted
C16_Witness ==
    /\ ReachedDecision(Main) /\ SaveSucceeded(Main)
    /\ NumBikes > 1 /\ bike[Main] = 1
    /\ \A i \in {1, 2} : fetched[Main][i].kind = "list"
                          /\ fetched[Main][i].recs # <<>>
    /\ Cardinality(SentIds(Main)) >= 2
    /\ PersistedSet = loaded[Main] \cup FetchedIds(Main)

\* C20 (at most one notifying run per identity): over non-overlapping runs
\* whose state writes all succeed, an identity for which an earlier run
\* dispatched a notification has none dispatched in the current run.
C20_AtMostOneNotifyingRun == tracked \notin SentIds(Main)

\* a later run fetches the followed identity again, notifies other records
\* and not that one
C20_Witness ==
    /\ Done(Main) /\ SaveSucceeded(Main)
    /\ tracked # "" /\ tracked \in FetchedIds(Main)
    /\ sent[Main] # <<>>
    /\ tracked \notin SentIds(Main)

\* a run of process p has started and not ended
Running(p) == pc[p] \notin {"idle", "done"}

\* a step that leaves the loop over the bikes behind never leads back into
\* it, a delivery attempt is made for the next new record only, and a fetch
\* makes no attempt beyond the third
OneCycleStep(p) ==
    /\ pc[p] \in {"decide", "notify", "save"}
        => pc'[p] \in {"decide", "notify", "save", "done"}
    /\ sent'[p] # sent[p]
        => /\ pc[p] = "notify"
           /\ sent'[p] = Append(sent[p], new_records[p][next_send[p]])
           /\ next_send'[p] = next_send[p] + 1
    /\ attempt'[p] <= MaxAttempts

\* C19 (run termination): every run that has started eventually ends,
\* whatever the fetches, the notifications and the state write do; and a run
\* is one cycle: once past the loop over the bikes it never enters it again,
\* each new record gets one delivery attempt, each fetch at most 3 attempts,
\* and the invocation does nothing after its run has ended.
C19_RunTermination ==
    /\ Running(Main) ~> Done(Main)
    /\ [][/\ Running(Main) => OneCycleStep(Main)
          /\ ~Done(Main)]_vars

\* a run has ended after exhausted fetches, a failed notification and a
\* failed state write
C19_Witness ==
    /\ Done(Main) /\ saved[Main] = "write_failed" /\ post_failed[Main]
    /\ \E i \in BikeIdx : fetched[Main][i] = Down

\* a run started while the run of another invocation had loaded the state
\* file and not yet saved it
Overlapped == \E p \in Procs : rerun[p] = "overlapping"

\* both runs have ended and the persisted set misses an identity that is in
\* the set one of them wrote
LostUpdate ==
    /\ \A p \in Procs : Done(p)
    /\ \E p \in Procs : SaveSucceeded(p) /\ ~(last_ids[p] \subseteq PersistedSet)

\* both runs dispatched a notification for the same identity
DoubleNotification == SentIds(1) \cap SentIds(2) # {}

\* C18 (no mutual exclusion): a persisted set that misses identities a run
\* wrote, and a record notified by both runs, occur only when the two runs
\* overlapped (both loaded before either saved); the witness shows that with
\* overlapping runs both do occur.
C18_NoMutualExclusion == (LostUpdate \/ DoubleNotification) => Overlapped

\* two overlapping runs: both notified the same record, and the later save
\* dropped an identity the earlier run had written
C18_Witness == Overlapped /\ LostUpdate /\ DoubleNotification

====
